---- MODULE Spec2Model ----
(***************************************************************************)
(* Model of app.py: the two single-select checkbox tables of the           *)
(* worksheet (1.7 Interface Planning over PLAN_ROWS, 2.3 Integrity focus   *)
(* over INTEGRITY_ROWS), the "Use recommended" / "Clear selection" quick   *)
(* actions and the selections handed to build_pdf.                         *)
(*                                                                         *)
(* app.py is a Streamlit script: every user event (a checkbox click, a     *)
(* button press) makes the runtime store the widgets' new values in        *)
(* st.session_state and execute the script once from top to bottom (a      *)
(* processing pass).  One action of this model is one user event together  *)
(* with the pass (and, after st.rerun(), the second pass) it triggers.     *)
(*                                                                         *)
(* Strings of the source holding characters outside ASCII are written in   *)
(* ASCII here: the em-dash is "--", the arrow "->", the section sign "S".  *)
(***************************************************************************)
EXTENDS Naturals, Integers, Sequences, FiniteSets, TLC

(***************************************************************************)
(* Static tables (app.py 134-209).  Only the fields the script reads for   *)
(* selection and export are kept; "Description" and the other display-only *)
(* columns are written to the page and never read back.                    *)
(***************************************************************************)
PLAN_ROWS ==
  << [Gap |-> "Data Silos",
      Iface |-> "Interface Engine (Middleware)",
      Fix |-> "Add/Optimize Interface Engine",
      Reference |-> "CMS Criterion 3 - Data Availability"],
     [Gap |-> "Inconsistent Patient IDs",
      Iface |-> "Interface Engine (Middleware)",
      Fix |-> "Implement MPI",
      Reference |-> "CMS Criterion 5 - Identity & Trust"],
     [Gap |-> "Missing Clinical Context",
      Iface |-> "Interface Engine (Middleware)",
      Fix |-> "Map HL7->DICOM Metadata",
      Reference |-> "ONC S170.315(b) - Transitions of Care"],
     [Gap |-> "No FHIR Connection",
      Iface |-> "FHIR API",
      Fix |-> "Enable/Upgrade EHR FHIR",
      Reference |-> "ONC S170.315(g)(10) - API Exchange"],
     [Gap |-> "Data Integrity & Security",
      Iface |-> "Interface Engine (Middleware)",
      Fix |-> "Enable audit logs & integrity checks; shared audit trail",
      Reference |-> "ONC S170.315(d)(9); CMS Criterion 5 - Identity & Trust"] >>

INTEGRITY_ROWS ==
  << [Area |-> "Data Accuracy (Integrity)"],
     [Area |-> "Access Tracking (Audit Logs)"],
     [Area |-> "Error Detection & Alerts"],
     [Area |-> "Patient Identity Management (MPI)"] >>

(* Variant: the rule table lacks the entry of one gap.                     *)
RECOMMENDED_INTEGRITY_m ==
  [g \in {"Data Silos", "Inconsistent Patient IDs", "Missing Clinical Context",
          "Data Integrity & Security"} |->
     CASE g = "Data Silos" -> "Access Tracking (Audit Logs)"
       [] g = "Inconsistent Patient IDs" -> "Patient Identity Management (MPI)"
       [] g = "Missing Clinical Context" -> "Data Accuracy (Integrity)"
       [] g = "Data Integrity & Security" -> "Data Accuracy (Integrity)"]

RECOMMENDED_INTEGRITY ==
  [g \in {"Data Silos", "Inconsistent Patient IDs", "Missing Clinical Context",
          "No FHIR Connection", "Data Integrity & Security"} |->
     CASE g = "Data Silos" -> "Access Tracking (Audit Logs)"
       [] g = "Inconsistent Patient IDs" -> "Patient Identity Management (MPI)"
       [] g = "Missing Clinical Context" -> "Data Accuracy (Integrity)"
       [] g = "No FHIR Connection" -> "Error Detection & Alerts"
       [] g = "Data Integrity & Security" -> "Data Accuracy (Integrity)"]

(* Python's None, and the value of a name the pass never assigned because  *)
(* the script stopped before the assignment.                               *)
None == "None"
Unset == "Unset"
NoRow == 0
UnsetRow == -1

PlanIdx == 1..Len(PLAN_ROWS)
IntegrityIdx == 1..Len(INTEGRITY_ROWS)

(***************************************************************************)
(* Widget keys.  The source builds f"plan_row_{i}_{slug(Gap)}" and         *)
(* f"p2_integrity_{i}_{slug(Area)}"; the row index i alone makes each key  *)
(* unique, so a key is the pair <<prefix, i>> (i counted from 1).          *)
(***************************************************************************)
PlanKey(i) == <<"plan_row", i>>

(* Variant: the integrity checkboxes reuse the plan table's key prefix.    *)
IntegrityKey_m(i) == <<"plan_row", i>>

IntegrityKey(i) == <<"p2_integrity", i>>
PlanKeys == {PlanKey(i) : i \in PlanIdx}
IntegrityKeys == {IntegrityKey(i) : i \in IntegrityIdx}
Keys == PlanKeys \cup IntegrityKeys

VARIABLES
  session_state,        \* st.session_state restricted to the checkbox keys
  include_all_options,  \* value of the keyless appendix checkbox (line 817)
  out,                  \* what the last pass computed and rendered
  pdf,                  \* what build_pdf wrote in the last pass, or NoPdf
  last_op,              \* the user event that triggered the last pass
  before,               \* session_state as it was before that event
  rt                    \* progress of a deselect / reselect round trip

vars == <<session_state, include_all_options, out, pdf, last_op, before, rt>>


(***************************************************************************)
(* st.session_state[k] = v during a pass (lines 495, 692, 697).  The       *)
(* Streamlit runtime refuses the assignment when the widget with key k has *)
(* already been instantiated in the running pass and raises                *)
(* StreamlitAPIException ("st.session_state.k cannot be modified after the *)
(* widget with key k is instantiated"); the script stops at that           *)
(* statement and session_state keeps the widget values.  The rule holds in *)
(* every release that has st.rerun (line 693).  widget_ids_this_run is the *)
(* set of keys whose st.checkbox call the pass has executed so far.        *)
(***************************************************************************)
(* Variant: the assignment is accepted whatever the pass has instantiated. *)
SetItem_m(ss, widget_ids_this_run, k, v) ==
  [raised |-> FALSE, ss |-> [ss EXCEPT ![k] = v]]

SetItem(ss, widget_ids_this_run, k, v) ==
  IF k \in widget_ids_this_run
    THEN [raised |-> TRUE, ss |-> ss]
    ELSE [raised |-> FALSE, ss |-> [ss EXCEPT ![k] = v]]

(* The for-loop of reset_other_checkboxes from position n on (491-495).    *)
RECURSIVE ResetLoop(_, _, _, _, _)
ResetLoop(n, checked_keys, keep_key, ss, widget_ids_this_run) ==
  IF n > Len(checked_keys)
    THEN [raised |-> FALSE, ss |-> ss]
    ELSE LET k == checked_keys[n] IN
         IF k # keep_key /\ ss[k]
           THEN LET w == SetItem(ss, widget_ids_this_run, k, FALSE) IN
                IF w.raised THEN w
                ELSE ResetLoop(n + 1, checked_keys, keep_key, w.ss,
                               widget_ids_this_run)
           ELSE ResetLoop(n + 1, checked_keys, keep_key, ss,
                          widget_ids_this_run)

reset_other_checkboxes(checked_keys, keep_key, ss, widget_ids_this_run) ==
  ResetLoop(1, checked_keys, keep_key, ss, widget_ids_this_run)

(* dict.get(k): the mapped value, or None for a missing key.               *)
DictGet(d, k) == IF k \in DOMAIN d THEN d[k] ELSE None

(* Variant: the conflict test written as len(checked_keys) > 2.            *)
MoreThanOneChecked_m(keys) == Len(keys) > 2

(* The test  len(checked_keys) > 1  of lines 631 and 746.                  *)
MoreThanOneChecked(keys) == Len(keys) > 1

(***************************************************************************)
(* 1.7 Interface Planning, lines 616-641.  st.checkbox("", key=key)        *)
(* returns session_state[key]; the loop collects the checked keys in row   *)
(* order, then the conflict branch warns and calls reset_other_checkboxes  *)
(* after all five checkboxes were instantiated, then plan_selected is the  *)
(* first row whose key is true.                                            *)
(***************************************************************************)
PlanCheckedKeys(ss) ==
  SelectSeq([i \in PlanIdx |-> PlanKey(i)], LAMBDA k : ss[k])

(* Variant: the scan for the selected row starts at the second row.        *)
FirstTruePlanRow_m(ss) ==
  IF \E i \in PlanIdx \ {1} : ss[PlanKey(i)]
    THEN CHOOSE i \in PlanIdx \ {1} :
           /\ ss[PlanKey(i)]
           /\ \A j \in PlanIdx \ {1} : ss[PlanKey(j)] => i <= j
    ELSE NoRow

(* Lines 636-641: the first row, in table order, whose key is true.        *)
FirstTruePlanRow(ss) ==
  IF \E i \in PlanIdx : ss[PlanKey(i)]
    THEN CHOOSE i \in PlanIdx :
           /\ ss[PlanKey(i)]
           /\ \A j \in PlanIdx : ss[PlanKey(j)] => i <= j
    ELSE NoRow

PlanResolved(checked_keys, conflict, r) ==
  [checked_keys |-> checked_keys,
   plan_warning |-> conflict,
   raised |-> r.raised,
   ss |-> r.ss,
   plan_selected |-> IF r.raised THEN UnsetRow ELSE FirstTruePlanRow(r.ss)]

PlanConflict(ss, checked_keys, conflict) ==
  PlanResolved(checked_keys, conflict,
    IF conflict
      THEN reset_other_checkboxes(checked_keys, checked_keys[1], ss, PlanKeys)
      ELSE [raised |-> FALSE, ss |-> ss])

PlanChecked(ss, checked_keys) ==
  PlanConflict(ss, checked_keys, MoreThanOneChecked(checked_keys))

PlanSection(ss) == PlanChecked(ss, PlanCheckedKeys(ss))

(* Variant: the rule table is looked up with the row's fix, not its gap.   *)
RecommendedArea_m(plan_selected) ==
  IF plan_selected # NoRow
    THEN DictGet(RECOMMENDED_INTEGRITY, PLAN_ROWS[plan_selected].Fix)
    ELSE None

(* Line 684.                                                               *)
RecommendedArea(plan_selected) ==
  IF plan_selected # NoRow
    THEN DictGet(RECOMMENDED_INTEGRITY, PLAN_ROWS[plan_selected].Gap)
    ELSE None

(***************************************************************************)
(* The two quick actions, lines 689-698: each writes every integrity key   *)
(* before the integrity checkboxes of this pass are instantiated, then     *)
(* calls st.rerun().                                                       *)
(***************************************************************************)
RECURSIVE UseRecommendedLoop(_, _, _, _)
UseRecommendedLoop(i, ss, widget_ids_this_run, recommended_area) ==
  IF i > Len(INTEGRITY_ROWS)
    THEN [raised |-> FALSE, ss |-> ss]
    ELSE LET w == SetItem(ss, widget_ids_this_run, IntegrityKey(i),
                          INTEGRITY_ROWS[i].Area = recommended_area) IN
         IF w.raised THEN w
         ELSE UseRecommendedLoop(i + 1, w.ss, widget_ids_this_run,
                                 recommended_area)

(* Variant: only the recommended row is written, the others are left.      *)
UseRecommended_m(ss, widget_ids_this_run, recommended_area) ==
  SetItem(ss, widget_ids_this_run,
          CHOOSE k \in IntegrityKeys :
            INTEGRITY_ROWS[k[2]].Area = recommended_area,
          TRUE)

UseRecommended(ss, widget_ids_this_run, recommended_area) ==
  UseRecommendedLoop(1, ss, widget_ids_this_run, recommended_area)

RECURSIVE ClearSelectionLoop(_, _, _)
ClearSelectionLoop(i, ss, widget_ids_this_run) ==
  IF i > Len(INTEGRITY_ROWS)
    THEN [raised |-> FALSE, ss |-> ss]
    ELSE LET w == SetItem(ss, widget_ids_this_run, IntegrityKey(i), FALSE) IN
         IF w.raised THEN w
         ELSE ClearSelectionLoop(i + 1, w.ss, widget_ids_this_run)

(* Variant: the loop skips the first row.                                  *)
ClearSelection_m(ss, widget_ids_this_run) ==
  ClearSelectionLoop(2, ss, widget_ids_this_run)

ClearSelection(ss, widget_ids_this_run) ==
  ClearSelectionLoop(1, ss, widget_ids_this_run)


(* The keys of a table that are true in ss.                                *)
CheckedIn(ss, keys) == {k \in keys : ss[k]}

(* Line 700: the caption above the integrity table.                        *)
RecommendedCaption(ss, recommended_area) ==
  /\ ~(\E i \in IntegrityIdx : ss[IntegrityKey(i)])
  /\ recommended_area # None

(***************************************************************************)
(* 2.3 Integrity focus, the row loop of lines 711-742.  Iteration i        *)
(* instantiates the checkbox of row i, appends its key when checked,       *)
(* overwrites selected_area when the key is true, and renders the row's    *)
(* select cell from the selected_area known at that point.                 *)
(***************************************************************************)
RECURSIVE IntegrityLoop(_, _, _, _)
IntegrityLoop(i, ss, recommended_area, acc) ==
  IF i > Len(INTEGRITY_ROWS)
    THEN acc
    ELSE LET row == INTEGRITY_ROWS[i]
             key == IntegrityKey(i)
             keys == IF ss[key]
                       THEN Append(acc.integrity_checked_keys, key)
                       ELSE acc.integrity_checked_keys
             selected_area == IF ss[key] THEN row.Area ELSE acc.selected_area
             is_selected == (selected_area = row.Area)
             is_recommended == /\ selected_area = None
                               /\ recommended_area = row.Area
         IN IntegrityLoop(i + 1, ss, recommended_area,
              [integrity_checked_keys |-> keys,
               selected_area |-> selected_area,
               is_selected |-> Append(acc.is_selected, is_selected),
               is_recommended |-> Append(acc.is_recommended, is_recommended)])

(* Variant: the recommendation takes precedence over the explicit choice.  *)
EffectiveIntegrity_m(selected_area, recommended_area) ==
  IF recommended_area # None THEN recommended_area
  ELSE IF selected_area # None THEN selected_area
  ELSE "-- select --"

(* Variant: the fallback placeholder is the one of line 812.               *)
EffectiveIntegrity_m2(selected_area, recommended_area) ==
  IF selected_area # None THEN selected_area
  ELSE IF recommended_area # None THEN recommended_area
  ELSE "-- choose --"

(* Line 751.                                                               *)
EffectiveIntegrity(selected_area, recommended_area) ==
  IF selected_area # None THEN selected_area
  ELSE IF recommended_area # None THEN recommended_area
  ELSE "-- select --"

IntegrityResolved(acc, conflict, r, recommended_area) ==
  [integrity_checked_keys |-> acc.integrity_checked_keys,
   selected_area |-> acc.selected_area,
   is_selected |-> acc.is_selected,
   is_recommended |-> acc.is_recommended,
   integrity_warning |-> conflict,
   raised |-> r.raised,
   ss |-> r.ss,
   p2_integrity |-> IF r.raised THEN Unset
                    ELSE EffectiveIntegrity(acc.selected_area,
                                            recommended_area)]

IntegrityConflict(ss, acc, conflict, recommended_area) ==
  IntegrityResolved(acc, conflict,
    IF conflict
      THEN reset_other_checkboxes(acc.integrity_checked_keys,
             acc.integrity_checked_keys[1], ss, PlanKeys \cup IntegrityKeys)
      ELSE [raised |-> FALSE, ss |-> ss],
    recommended_area)

IntegrityChecked(ss, acc, recommended_area) ==
  IntegrityConflict(ss, acc, MoreThanOneChecked(acc.integrity_checked_keys),
                    recommended_area)

IntegritySection(ss, recommended_area) ==
  IntegrityChecked(ss,
    IntegrityLoop(1, ss, recommended_area,
      [integrity_checked_keys |-> <<>>, selected_area |-> None,
       is_selected |-> <<>>, is_recommended |-> <<>>]),
    recommended_area)

(* Variant: the reference is always read from the first row of PLAN_ROWS. *)
Selections_m(plan_selected, p2_integrity, incl) ==
  IF plan_selected # NoRow
    THEN [plan_gap |-> PLAN_ROWS[plan_selected].Gap,
          plan_iface |-> PLAN_ROWS[plan_selected].Iface,
          plan_fix |-> PLAN_ROWS[plan_selected].Fix,
          plan_ref |-> PLAN_ROWS[1].Reference,
          p2_integrity |-> p2_integrity,
          include_all_options |-> incl]
    ELSE [plan_gap |-> "-- choose --",
          plan_iface |-> "-- select --",
          plan_fix |-> "-- choose --",
          plan_ref |-> PLAN_ROWS[1].Reference,
          p2_integrity |-> p2_integrity,
          include_all_options |-> incl]

(* Lines 806-826: the dictionary handed to build_pdf.                      *)
Selections(plan_selected, p2_integrity, incl) ==
  IF plan_selected # NoRow
    THEN [plan_gap |-> PLAN_ROWS[plan_selected].Gap,
          plan_iface |-> PLAN_ROWS[plan_selected].Iface,
          plan_fix |-> PLAN_ROWS[plan_selected].Fix,
          plan_ref |-> PLAN_ROWS[plan_selected].Reference,
          p2_integrity |-> p2_integrity,
          include_all_options |-> incl]
    ELSE [plan_gap |-> "-- choose --",
          plan_iface |-> "-- select --",
          plan_fix |-> "-- choose --",
          plan_ref |-> "--",
          p2_integrity |-> p2_integrity,
          include_all_options |-> incl]

NoSelections ==
  [plan_gap |-> Unset, plan_iface |-> Unset, plan_fix |-> Unset,
   plan_ref |-> Unset, p2_integrity |-> Unset, include_all_options |-> FALSE]

(* Variant: the tuple of internal placeholders lacks "-- choose --".       *)
sel_or_dash_m(val) ==
  IF val # None /\ val # "" /\ val \notin {"-- select --"}
    THEN val ELSE "--"

(* build_pdf, lines 267-268, 373-376, 431 and 466-477: the values of the   *)
(* selections that reach the document.                                     *)
sel_or_dash(val) ==
  IF val # None /\ val # "" /\ val \notin {"-- select --", "-- choose --"}
    THEN val ELSE "--"

(* Variant: the appendix marks a row on its interface type alone.         *)
build_pdf_m(selections) ==
  [plan_gap |-> sel_or_dash(selections.plan_gap),
   plan_iface |-> sel_or_dash(selections.plan_iface),
   plan_fix |-> sel_or_dash(selections.plan_fix),
   plan_ref |-> sel_or_dash(selections.plan_ref),
   p2_integrity |-> sel_or_dash(selections.p2_integrity),
   appendix |-> IF selections.include_all_options
                  THEN [i \in PlanIdx |->
                          PLAN_ROWS[i].Iface = selections.plan_iface]
                  ELSE <<>>]

(* The appendix field is the "Selected" column of lines 471-477: TRUE for  *)
(* a row that gets the check mark; <<>> when no appendix is written.       *)
build_pdf(selections) ==
  [plan_gap |-> sel_or_dash(selections.plan_gap),
   plan_iface |-> sel_or_dash(selections.plan_iface),
   plan_fix |-> sel_or_dash(selections.plan_fix),
   plan_ref |-> sel_or_dash(selections.plan_ref),
   p2_integrity |-> sel_or_dash(selections.p2_integrity),
   appendix |-> IF selections.include_all_options
                  THEN [i \in PlanIdx |->
                          /\ PLAN_ROWS[i].Gap = selections.plan_gap
                          /\ PLAN_ROWS[i].Iface = selections.plan_iface
                          /\ PLAN_ROWS[i].Fix = selections.plan_fix]
                  ELSE <<>>]

NoPdf ==
  [plan_gap |-> Unset, plan_iface |-> Unset, plan_fix |-> Unset,
   plan_ref |-> Unset, p2_integrity |-> Unset, appendix |-> <<>>]


(***************************************************************************)
(* One execution of the script, lines 616-838, with the widget values ss,  *)
(* the appendix checkbox incl and the button click that triggered it       *)
(* ("none" when a checkbox changed).  stage tells where the pass ended:    *)
(*   "plan_conflict"       StreamlitAPIException at line 634 -> 495        *)
(*   "rerun"               st.rerun() at line 693 or 698                   *)
(*   "integrity_conflict"  StreamlitAPIException at line 749 -> 495        *)
(*   "done"                the script reached its last line                *)
(* Names the pass did not assign are Unset / UnsetRow.  observed is the    *)
(* set of keys whose st.checkbox call returned True in this pass.          *)
(***************************************************************************)
BlankOut ==
  [stage |-> "plan_conflict", observed |-> {},
   checked_keys |-> <<>>, plan_warning |-> FALSE, plan_selected |-> UnsetRow,
   recommended_area |-> Unset, use_recommended_disabled |-> TRUE,
   caption |-> FALSE,
   integrity_checked_keys |-> <<>>, selected_area |-> Unset,
   is_selected |-> <<>>, is_recommended |-> <<>>,
   integrity_warning |-> FALSE, p2_integrity |-> Unset,
   selections |-> NoSelections]

Stopped(ss, o) == [ss |-> ss, out |-> o, pdf |-> NoPdf]

(* Lines 806-838.                                                          *)
PassExport(ss, o, click, selections) ==
  [ss |-> ss,
   out |-> [o EXCEPT !.stage = "done", !.selections = selections],
   pdf |-> IF click = "generate" THEN build_pdf(selections) ELSE NoPdf]

(* Lines 700-751.                                                          *)
PassIntegrityOut(ss, incl, click, plan_selected, p2, o) ==
  IF p2.raised
    THEN Stopped(p2.ss, o)
    ELSE PassExport(p2.ss, o, click,
                    Selections(plan_selected, p2.p2_integrity, incl))

PassIntegrity(ss, incl, click, plan_selected, recommended_area, o, p2) ==
  PassIntegrityOut(ss, incl, click, plan_selected, p2,
    [o EXCEPT !.stage = "integrity_conflict",
              !.observed = o.observed \cup CheckedIn(ss, IntegrityKeys),
              !.caption = RecommendedCaption(ss, recommended_area),
              !.integrity_checked_keys = p2.integrity_checked_keys,
              !.selected_area = p2.selected_area,
              !.is_selected = p2.is_selected,
              !.is_recommended = p2.is_recommended,
              !.integrity_warning = p2.integrity_warning,
              !.p2_integrity = p2.p2_integrity])

(* Lines 684-698.                                                          *)
PassButtonsOut(ss, incl, click, plan_selected, recommended_area, o) ==
  IF click = "use_recommended" /\ ~o.use_recommended_disabled
    THEN Stopped(UseRecommended(ss, PlanKeys, recommended_area).ss,
                 [o EXCEPT !.stage = "rerun"])
  ELSE IF click = "clear"
    THEN Stopped(ClearSelection(ss, PlanKeys).ss,
                 [o EXCEPT !.stage = "rerun"])
  ELSE PassIntegrity(ss, incl, click, plan_selected, recommended_area, o,
                     IntegritySection(ss, recommended_area))

PassButtons(ss, incl, click, plan_selected, recommended_area, o) ==
  PassButtonsOut(ss, incl, click, plan_selected, recommended_area,
    [o EXCEPT !.recommended_area = recommended_area,
              !.use_recommended_disabled = (recommended_area = None)])

(* Lines 616-641.                                                          *)
PassPlanOut(incl, click, p1, o) ==
  IF p1.raised
    THEN Stopped(p1.ss, o)
    ELSE PassButtons(p1.ss, incl, click, p1.plan_selected,
                     RecommendedArea(p1.plan_selected), o)

PassPlan(ss, incl, click, p1) ==
  PassPlanOut(incl, click, p1,
    [BlankOut EXCEPT !.observed = CheckedIn(ss, PlanKeys),
                     !.checked_keys = p1.checked_keys,
                     !.plan_warning = p1.plan_warning,
                     !.plan_selected = p1.plan_selected])

Pass(ss, incl, click) == PassPlan(ss, incl, click, PlanSection(ss))

(* A user event: the pass it triggers and, when that pass ends in          *)
(* st.rerun(), the pass the runtime starts right after it.                 *)
Rerun(incl, p) ==
  IF p.out.stage = "rerun" THEN Pass(p.ss, incl, "none") ELSE p

Run(ss, incl, click) == Rerun(incl, Pass(ss, incl, click))

(***************************************************************************)
(* What the page of the last pass lets the user touch: the plan checkboxes *)
(* are rendered by every pass; the integrity checkboxes and the two quick  *)
(* actions only by a pass that got past line 634; the appendix checkbox    *)
(* and "Generate PDF" only by a pass that reached the end.                 *)
(***************************************************************************)
PlanRendered == TRUE
IntegrityRendered == out.stage \in {"integrity_conflict", "done"}
ExportRendered == out.stage = "done"

GroupKeys(k) == IF k \in PlanKeys THEN PlanKeys ELSE IntegrityKeys
KeyRendered(k) == IF k \in PlanKeys THEN PlanRendered ELSE IntegrityRendered

MaxBatch == 2

NoKey == <<"", 0>>
NoTrip == [key |-> NoKey, phase |-> 0]

(* The selection the last pass reported for the group of key k: the key of *)
(* plan_selected (line 636-641) or of selected_area (line 727), NoKey for  *)
(* None, and nothing at all when the pass did not assign it.               *)
AreaIndex(area) ==
  CHOOSE i \in IntegrityIdx : INTEGRITY_ROWS[i].Area = area

ReportedPlan(o) ==
  IF o.plan_selected = UnsetRow THEN {}
  ELSE IF o.plan_selected = NoRow THEN {NoKey}
  ELSE {PlanKey(o.plan_selected)}

ReportedIntegrity(o) ==
  IF o.selected_area = Unset THEN {}
  ELSE IF o.selected_area = None THEN {NoKey}
  ELSE {IntegrityKey(AreaIndex(o.selected_area))}

Reported(o, k) ==
  IF k \in PlanKeys THEN ReportedPlan(o) ELSE ReportedIntegrity(o)

Apply(ss, incl, click, op) ==
  \E r \in {Run(ss, incl, click)} :
    /\ session_state' = r.ss
    /\ include_all_options' = incl
    /\ out' = r.out
    /\ pdf' = r.pdf
    /\ last_op' = op
    /\ before' = session_state

(* The session opens with the first pass over the widgets' default value   *)
(* False (st.checkbox default; line 817 value=False).                      *)
Init ==
  /\ session_state = [k \in Keys |-> FALSE]
  /\ include_all_options = FALSE
  /\ out = Run([k \in Keys |-> FALSE], FALSE, "none").out
  /\ pdf = NoPdf
  /\ last_op = [kind |-> "start", key |-> NoKey]
  /\ before = [k \in Keys |-> FALSE]
  /\ rt = NoTrip

(* The user clicks one checkbox (lines 626, 722).  rt follows a round      *)
(* trip: phase 1 after the only checked box k of a table was clicked,      *)
(* phase 2 when k is clicked again in the very next event.                 *)
Toggle(k) ==
  /\ KeyRendered(k)
  /\ Apply([session_state EXCEPT ![k] = ~session_state[k]],
           include_all_options, "none", [kind |-> "toggle", key |-> k])
  /\ rt' = IF CheckedIn(session_state, GroupKeys(k)) = {k}
             THEN [key |-> k, phase |-> 1]
           ELSE IF rt = [key |-> k, phase |-> 1]
             THEN [key |-> k, phase |-> 2]
           ELSE NoTrip

(* Several checkboxes of one table change before the next pass starts      *)
(* (clicks made while a pass is running are delivered together): the pass  *)
(* observes the batch obs for that table.  MaxBatch bounds how many        *)
(* checkboxes change in one batch.  last_op keeps the table's key prefix.   *)
ApplyObservedState(keys, obs) ==
  /\ \A k \in keys : KeyRendered(k)
  /\ Cardinality({k \in keys : obs[k] # session_state[k]}) \in 2..MaxBatch
  /\ Apply([k \in Keys |-> IF k \in keys THEN obs[k] ELSE session_state[k]],
           include_all_options, "none",
           [kind |-> "batch", key |-> <<(CHOOSE k \in keys : TRUE)[1], 0>>])
  /\ rt' = NoTrip

(* "Use recommended", lines 689-693.                                       *)
UseRecommendedClick ==
  /\ IntegrityRendered
  /\ ~out.use_recommended_disabled
  /\ Apply(session_state, include_all_options, "use_recommended",
           [kind |-> "use_recommended", key |-> NoKey])
  /\ rt' = NoTrip

(* "Clear selection", lines 695-698.                                       *)
ClearSelectionClick ==
  /\ IntegrityRendered
  /\ Apply(session_state, include_all_options, "clear",
           [kind |-> "clear", key |-> NoKey])
  /\ rt' = NoTrip

(* Variant: the appendix checkbox is given the key of the first plan row,  *)
(* so that a click on it changes that entry of session_state.              *)
ToggleIncludeAll_m ==
  /\ ExportRendered
  /\ Apply([session_state EXCEPT ![PlanKey(1)] = ~include_all_options],
           ~include_all_options, "none",
           [kind |-> "include_all", key |-> NoKey])
  /\ rt' = NoTrip

(* The appendix checkbox, line 817.                                        *)
ToggleIncludeAll ==
  /\ ExportRendered
  /\ Apply(session_state, ~include_all_options, "none",
           [kind |-> "include_all", key |-> NoKey])
  /\ rt' = NoTrip

(* "Generate PDF", lines 831-832.                                          *)
GeneratePDF ==
  /\ ExportRendered
  /\ Apply(session_state, include_all_options, "generate",
           [kind |-> "generate", key |-> NoKey])
  /\ rt' = NoTrip

(* The runtime's Rerun command (menu entry or the R key): the script runs  *)
(* again with the widget values it already has; no button reports a click. *)
RerunClick ==
  /\ Apply(session_state, include_all_options, "none",
           [kind |-> "rerun", key |-> NoKey])
  /\ rt' = NoTrip

Next ==
  \/ \E k \in Keys : Toggle(k)
  \/ \E obs \in [PlanKeys -> BOOLEAN] : ApplyObservedState(PlanKeys, obs)
  \/ \E obs \in [IntegrityKeys -> BOOLEAN] :
       ApplyObservedState(IntegrityKeys, obs)
  \/ UseRecommendedClick
  \/ ClearSelectionClick
  \/ ToggleIncludeAll
  \/ GeneratePDF
  \/ RerunClick

Spec == Init /\ [][Next]_vars

TypeOK ==
  /\ session_state \in [Keys -> BOOLEAN]
  /\ include_all_options \in BOOLEAN
  /\ out.stage \in {"plan_conflict", "integrity_conflict", "done"}


(***************************************************************************)
(* Properties.                                                             *)
(***************************************************************************)
AreaOf(k) == INTEGRITY_ROWS[k[2]].Area
Areas == {INTEGRITY_ROWS[i].Area : i \in IntegrityIdx}

(* C1 -- Single-selection invariant: at the end of every processing pass   *)
(* each group has at most one checkbox stored as true, and the selection   *)
(* the pass reports for the group is None or one option of the group.      *)
C1_SingleSelection ==
  /\ Cardinality(CheckedIn(session_state, PlanKeys)) <= 1
  /\ Cardinality(CheckedIn(session_state, IntegrityKeys)) <= 1
  /\ out.plan_selected \in {NoRow} \cup PlanIdx
  /\ out.selected_area \in {None} \cup Areas

(* C2 -- Conflict determinism: whenever a pass observes more than one      *)
(* checkbox of a group true, the selection it resolves and reports for the *)
(* group (plan_selected; selected_area and p2_integrity) is the first      *)
(* observed-true option in row order.                                      *)
C2_ConflictResolvesToFirst ==
  /\ Len(out.checked_keys) > 1 =>
       out.plan_selected = out.checked_keys[1][2]
  /\ Len(out.integrity_checked_keys) > 1 =>
       /\ out.selected_area = AreaOf(out.integrity_checked_keys[1])
       /\ out.p2_integrity = AreaOf(out.integrity_checked_keys[1])

(* C3 -- Direct switch: checking id while another option of the same group *)
(* is the current selection makes id the current selection, whether id     *)
(* comes before or after the other option.                                 *)
C3_DirectSwitch ==
  \A k \in Keys : \A other \in GroupKeys(k) \ {k} :
    ( /\ last_op = [kind |-> "toggle", key |-> k]
      /\ CheckedIn(before, GroupKeys(k)) = {other} )
    => /\ Reported(out, k) = {k}
       /\ CheckedIn(session_state, GroupKeys(k)) = {k}

(* C4 -- Conflict correction of stored state: after a pass that observed   *)
(* more than one checkbox of a group true, the stored state of the group   *)
(* has the first observed-true option true and every other option false,   *)
(* and the other group's checkboxes are as they were observed.             *)
C4_ConflictCorrectsStoredState ==
  /\ Len(out.checked_keys) > 1 =>
       /\ CheckedIn(session_state, PlanKeys) = {out.checked_keys[1]}
       /\ CheckedIn(session_state, IntegrityKeys)
            = CheckedIn(before, IntegrityKeys)
  /\ Len(out.integrity_checked_keys) > 1 =>
       /\ CheckedIn(session_state, IntegrityKeys)
            = {out.integrity_checked_keys[1]}
       /\ CheckedIn(session_state, PlanKeys) = out.observed \cap PlanKeys

(* C5 -- Conflict is flagged, never silent: in every pass and for each     *)
(* group the conflict warning is raised if and only if more than one       *)
(* checkbox of the group was observed true in that pass, and a pass whose  *)
(* stored state of a group differs from what it observed raised the        *)
(* group's warning.                                                        *)
C5_ConflictFlagged ==
  /\ out.plan_warning <=> Cardinality(out.observed \cap PlanKeys) > 1
  /\ out.integrity_warning <=>
       Cardinality(out.observed \cap IntegrityKeys) > 1
  /\ CheckedIn(session_state, PlanKeys) # out.observed \cap PlanKeys
       => out.plan_warning
  /\ ( /\ IntegrityRendered
       /\ CheckedIn(session_state, IntegrityKeys)
            # out.observed \cap IntegrityKeys )
       => out.integrity_warning

(* A pass that observed two integrity checkboxes true and warned, after    *)
(* an earlier pass of the session did the same for the plan table.         *)
C5_Witness ==
  /\ out.integrity_warning
  /\ Cardinality(out.observed \cap IntegrityKeys) = 2
  /\ Cardinality(out.observed \cap PlanKeys) = 1
  /\ ~out.plan_warning


(* The recommendation the rule table gives for the stored plan selection.  *)
RuleFor(ss) ==
  IF CheckedIn(ss, PlanKeys) = {} THEN None
  ELSE LET g == CHOOSE k \in CheckedIn(ss, PlanKeys) : TRUE
       IN RECOMMENDED_INTEGRITY[PLAN_ROWS[g[2]].Gap]

(* C6 -- Recommendation fallback: whenever a pass assigns p2_integrity     *)
(* (line 751), it is the explicitly checked integrity option if there is   *)
(* one, whatever the rule recommends; otherwise the rule's value for the   *)
(* selected gap if a gap is selected; otherwise the placeholder.           *)
C6_EffectiveSelection ==
  out.p2_integrity # Unset =>
    LET X == CheckedIn(session_state, IntegrityKeys) IN
    IF X # {} THEN \A k \in X : out.p2_integrity = AreaOf(k)
    ELSE IF CheckedIn(session_state, PlanKeys) # {}
      THEN out.p2_integrity = RuleFor(session_state)
    ELSE out.p2_integrity = "-- select --"

(* An explicit integrity choice that differs from the recommendation for   *)
(* the selected gap is the effective selection.                            *)
C6_Witness ==
  /\ out.stage = "done"
  /\ CheckedIn(session_state, PlanKeys) = {PlanKey(1)}
  /\ CheckedIn(session_state, IntegrityKeys) = {IntegrityKey(4)}
  /\ out.recommended_area = "Access Tracking (Audit Logs)"
  /\ out.p2_integrity = "Patient Identity Management (MPI)"

(* C7 -- Deselect and round trip: clicking the checkbox of the current     *)
(* selection x leaves the group Empty (nothing stored true, the pass       *)
(* reports None), and clicking it again right after makes x the current    *)
(* selection again.                                                        *)
C7_DeselectRoundTrip ==
  /\ rt.phase = 1 =>
       /\ CheckedIn(session_state, GroupKeys(rt.key)) = {}
       /\ Reported(out, rt.key) = {NoKey}
  /\ rt.phase = 2 =>
       /\ CheckedIn(session_state, GroupKeys(rt.key)) = {rt.key}
       /\ Reported(out, rt.key) = {rt.key}

(* The first plan row was selected, deselected and selected again.         *)
C7_Witness ==
  /\ rt = [key |-> PlanKey(1), phase |-> 2]
  /\ out.plan_selected = 1

(* C8 -- No operation fails: every operation completes without an error    *)
(* and leaves each group Empty or Selected(id).                            *)
C8_NoOperationFails ==
  /\ out.stage = "done"
  /\ \A keys \in {PlanKeys, IntegrityKeys} :
       \/ CheckedIn(session_state, keys) = {}
       \/ \E k \in keys : CheckedIn(session_state, keys) = {k}

(* C9 -- Use recommended: from any state of the integrity group, with a    *)
(* recommendation R for the selected gap, the action leaves exactly the    *)
(* checkbox of R true in the integrity group and R as the selection of the *)
(* pass that follows.                                                      *)
C9_UseRecommended ==
  last_op.kind = "use_recommended" =>
    /\ RuleFor(session_state) # None
    /\ \A k \in IntegrityKeys :
         session_state[k] <=> (AreaOf(k) = RuleFor(session_state))
    /\ out.selected_area = RuleFor(session_state)
    /\ out.stage = "done"

(* Use recommended pressed while another integrity option was selected.    *)
C9_Witness ==
  /\ last_op.kind = "use_recommended"
  /\ CheckedIn(before, IntegrityKeys) = {IntegrityKey(4)}
  /\ CheckedIn(session_state, IntegrityKeys) = {IntegrityKey(2)}

(* C10 -- Clear-then-empty: after Clear selection no integrity option is   *)
(* selected, and the pass that follows gives as effective selection the    *)
(* recommendation for the selected gap, or the placeholder when no gap is  *)
(* selected.                                                               *)
C10_ClearThenEmpty ==
  last_op.kind = "clear" =>
    /\ CheckedIn(session_state, IntegrityKeys) = {}
    /\ out.selected_area = None
    /\ out.p2_integrity = IF RuleFor(session_state) # None
                            THEN RuleFor(session_state)
                            ELSE "-- select --"

(* Clear selection pressed with the first integrity option selected and a  *)
(* gap selected.                                                           *)
C10_Witness ==
  /\ last_op.kind = "clear"
  /\ CheckedIn(before, IntegrityKeys) = {IntegrityKey(1)}
  /\ CheckedIn(session_state, PlanKeys) = {PlanKey(4)}
  /\ out.p2_integrity = "Error Detection & Alerts"


(* C11 -- Export placeholder: every selection value build_pdf writes (gap, *)
(* interface type, fix, reference, integrity focus) is a field of the      *)
(* selected plan row, the selected or recommended integrity area, or       *)
(* exactly "--"; the internal placeholders and None never reach it.        *)
C11_ExportPlaceholder ==
  last_op.kind = "generate" =>
    /\ \A v \in {pdf.plan_gap, pdf.plan_iface, pdf.plan_fix, pdf.plan_ref,
                 pdf.p2_integrity} :
         v \notin {"-- select --", "-- choose --", None, Unset, ""}
    /\ IF CheckedIn(session_state, PlanKeys) = {}
         THEN /\ pdf.plan_gap = "--"
              /\ pdf.plan_iface = "--"
              /\ pdf.plan_fix = "--"
              /\ pdf.plan_ref = "--"
         ELSE \A g \in CheckedIn(session_state, PlanKeys) :
                /\ pdf.plan_gap = PLAN_ROWS[g[2]].Gap
                /\ pdf.plan_iface = PLAN_ROWS[g[2]].Iface
                /\ pdf.plan_fix = PLAN_ROWS[g[2]].Fix
                /\ pdf.plan_ref = PLAN_ROWS[g[2]].Reference
    /\ IF CheckedIn(session_state, IntegrityKeys) # {}
         THEN \A k \in CheckedIn(session_state, IntegrityKeys) :
                pdf.p2_integrity = AreaOf(k)
         ELSE IF RuleFor(session_state) # None
           THEN pdf.p2_integrity = RuleFor(session_state)
           ELSE pdf.p2_integrity = "--"

(* A document generated with nothing selected in either table.             *)
C11_Witness ==
  /\ last_op.kind = "generate"
  /\ CheckedIn(session_state, Keys) = {}
  /\ pdf.plan_gap = "--"
  /\ pdf.p2_integrity = "--"


(* The table an event acted on: the key prefix kept in last_op for a       *)
(* checkbox click or a batch; the integrity table for the quick actions.   *)
PlanEvent ==
  /\ last_op.kind \in {"toggle", "batch"}
  /\ last_op.key[1] = "plan_row"

IntegrityEvent ==
  \/ /\ last_op.kind \in {"toggle", "batch"}
     /\ last_op.key[1] = "p2_integrity"
  \/ last_op.kind \in {"use_recommended", "clear"}

(* C12 -- Group independence: an event on the plan table (click, batch,    *)
(* with its conflict correction) leaves every stored integrity checkbox as *)
(* it was, and an event on the integrity table (click, batch, correction,  *)
(* Clear selection, Use recommended) leaves every stored plan checkbox as  *)
(* it was.                                                                 *)
C12_GroupIndependence ==
  /\ PlanEvent =>
       \A k \in IntegrityKeys : session_state[k] = before[k]
  /\ IntegrityEvent =>
       \A k \in PlanKeys : session_state[k] = before[k]

(* Use recommended rewrote the integrity table while a gap was selected,   *)
(* after a plan click had left a checked integrity box alone.              *)
C12_Witness ==
  /\ last_op.kind = "use_recommended"
  /\ CheckedIn(before, IntegrityKeys) = {IntegrityKey(3)}
  /\ CheckedIn(session_state, IntegrityKeys) = {IntegrityKey(4)}
  /\ CheckedIn(session_state, PlanKeys) = {PlanKey(2)}


(* C13 -- Recommendation shown only without an explicit selection: a pass  *)
(* renders the Recommended badge on an integrity row only if no integrity  *)
(* checkbox is checked in that pass, wherever the checked row stands       *)
(* relative to the recommended row.                                        *)
C13_BadgeOnlyWithoutSelection ==
  \A i \in DOMAIN out.is_recommended :
    out.is_recommended[i] => out.observed \cap IntegrityKeys = {}

(* C14 -- Recommended selection value: the recommendation a pass computes  *)
(* is RECOMMENDED_INTEGRITY[g] when g is the gap of the selected plan row, *)
(* None when no plan row is selected, and never a name outside the Areas   *)
(* of INTEGRITY_ROWS.                                                      *)
C14_RecommendedValue ==
  out.recommended_area # Unset =>
    /\ out.recommended_area \in Areas \cup {None}
    /\ IF CheckedIn(session_state, PlanKeys) = {}
         THEN out.recommended_area = None
         ELSE \A g \in CheckedIn(session_state, PlanKeys) :
                out.recommended_area
                  = RECOMMENDED_INTEGRITY[PLAN_ROWS[g[2]].Gap]

(* The last plan row is selected and its rule value is recommended.        *)
C14_Witness ==
  /\ CheckedIn(session_state, PlanKeys) = {PlanKey(5)}
  /\ out.recommended_area = "Data Accuracy (Integrity)"
  /\ out.stage = "done"


(* C15 -- Unknown-identifier no-op: a click on a checkbox whose identifier *)
(* is no option of either table (the keyless appendix checkbox of line     *)
(* 817 is the only such widget) changes neither the stored checkbox state  *)
(* of a table nor the selection the pass reports for it.                   *)
C15_UnknownIdentifierNoOp ==
  [][last_op'.kind = "include_all" =>
       /\ session_state' = session_state
       /\ out'.plan_selected = out.plan_selected
       /\ out'.selected_area = out.selected_area]_vars

(* The appendix checkbox was checked while both tables had a selection.    *)
C15_Witness ==
  /\ last_op.kind = "include_all"
  /\ include_all_options
  /\ out.plan_selected = 1
  /\ out.selected_area = "Error Detection & Alerts"

(* C16 -- Select from Empty: checking option id while no checkbox of its   *)
(* table is checked makes id the table's current selection in the          *)
(* resulting pass, and the pass raises no conflict warning for the table.  *)
C16_SelectFromEmpty ==
  \A k \in Keys :
    ( /\ last_op = [kind |-> "toggle", key |-> k]
      /\ CheckedIn(before, GroupKeys(k)) = {} )
    => /\ CheckedIn(session_state, GroupKeys(k)) = {k}
       /\ Reported(out, k) = {k}
       /\ IF k \in PlanKeys THEN ~out.plan_warning
                            ELSE ~out.integrity_warning

(* The third integrity row was checked in an empty integrity table.        *)
C16_Witness ==
  /\ last_op = [kind |-> "toggle", key |-> IntegrityKey(3)]
  /\ CheckedIn(before, IntegrityKeys) = {}
  /\ out.selected_area = "Error Detection & Alerts"

(* C17 -- Initial state: after the first pass of a session no checkbox is  *)
(* true in either table, no row is selected, no recommendation exists,     *)
(* the effective integrity selection is the placeholder and no conflict    *)
(* warning is raised.                                                      *)
C17_InitialState ==
  last_op.kind = "start" =>
    /\ CheckedIn(session_state, Keys) = {}
    /\ out.stage = "done"
    /\ out.plan_selected = NoRow
    /\ out.selected_area = None
    /\ out.recommended_area = None
    /\ out.use_recommended_disabled
    /\ ~out.caption
    /\ out.p2_integrity = "-- select --"
    /\ ~out.plan_warning
    /\ ~out.integrity_warning

(* The state right after the first pass.                                   *)
C17_Witness ==
  /\ last_op.kind = "start"
  /\ out.stage = "done"
  /\ pdf = NoPdf


(* C18 -- Idle-pass stability: a pass triggered without a change to any    *)
(* selection checkbox (Generate PDF, the appendix checkbox, a plain rerun) *)
(* reports for each table the same current selection and the same          *)
(* effective selection as the pass before it, also when that pass detected *)
(* a conflict.                                                             *)
C18_IdlePassStable ==
  [][last_op'.kind \in {"generate", "include_all", "rerun"} =>
       /\ out'.plan_selected = out.plan_selected
       /\ out'.selected_area = out.selected_area
       /\ out'.p2_integrity = out.p2_integrity
       /\ out'.recommended_area = out.recommended_area]_vars

(* A plain rerun after a pass that found two integrity rows checked.       *)
C18_Witness ==
  /\ last_op.kind = "rerun"
  /\ out.integrity_warning
  /\ out.integrity_checked_keys = <<IntegrityKey(1), IntegrityKey(4)>>
  /\ out.selected_area = "Patient Identity Management (MPI)"

(* C19 -- Rule totality: every Gap of PLAN_ROWS has an entry in            *)
(* RECOMMENDED_INTEGRITY whose value is an Area of INTEGRITY_ROWS, so a    *)
(* pass has a recommendation, and enables Use recommended, exactly when it *)
(* reports a selected plan row.                                            *)
C19_RuleTotality ==
  /\ \A i \in PlanIdx :
       /\ PLAN_ROWS[i].Gap \in DOMAIN RECOMMENDED_INTEGRITY
       /\ RECOMMENDED_INTEGRITY[PLAN_ROWS[i].Gap] \in Areas
  /\ out.recommended_area \in Areas <=> out.plan_selected \in PlanIdx
  /\ (IntegrityRendered /\ ~out.use_recommended_disabled)
       <=> out.plan_selected \in PlanIdx

(* The gap "No FHIR Connection" is selected and Use recommended is         *)
(* enabled with its rule value.                                            *)
C19_Witness ==
  /\ out.plan_selected = 4
  /\ out.recommended_area = "Error Detection & Alerts"
  /\ ~out.use_recommended_disabled

(* The stored state after a click on checkbox k, the pass that click       *)
(* triggers, and whether checkbox k can be clicked on the page of pass p.  *)
Flip(ss, k) == [ss EXCEPT ![k] = ~ss[k]]
PassAfter(ss) == Run(ss, include_all_options, "none")
Clickable(stage, k) == k \in PlanKeys \/ stage # "plan_conflict"

(* C20 -- Any option stays reachable: from every reachable state and for   *)
(* every option id there are at most two single checkbox clicks after      *)
(* which id is the current selection of its table.                         *)
C20_ReachableInTwoToggles ==
  \A id \in Keys :
    \/ Reported(out, id) = {id}
    \/ \E k1 \in Keys :
         /\ Clickable(out.stage, k1)
         /\ \/ Reported(PassAfter(Flip(session_state, k1)).out, id) = {id}
            \/ \E k2 \in Keys :
                 /\ Clickable(PassAfter(Flip(session_state, k1)).out.stage, k2)
                 /\ Reported(
                      PassAfter(Flip(Flip(session_state, k1), k2)).out, id)
                    = {id}

(* C21 -- Appendix mark: in a document generated with the all-options      *)
(* appendix, at most one row of PLAN_ROWS carries the check mark, a row    *)
(* carries it if and only if it is the plan table's current selection      *)
(* (the one checked row, which the pass reported as plan_selected), and no *)
(* row carries it when no plan row is checked.                             *)
C21_AppendixMark ==
  (last_op.kind = "generate" /\ include_all_options) =>
    /\ DOMAIN pdf.appendix = PlanIdx
    /\ Cardinality({i \in PlanIdx : pdf.appendix[i]}) <= 1
    /\ \A i \in PlanIdx :
         pdf.appendix[i] <=>
           /\ CheckedIn(session_state, PlanKeys) = {PlanKey(i)}
           /\ out.plan_selected = i
    /\ CheckedIn(session_state, PlanKeys) = {} =>
         \A i \in PlanIdx : ~pdf.appendix[i]

(* A document with appendix generated while the third gap is selected:     *)
(* the third row, and only it, is marked.                                  *)
C21_Witness ==
  /\ last_op.kind = "generate"
  /\ include_all_options
  /\ CheckedIn(session_state, PlanKeys) = {PlanKey(3)}
  /\ DOMAIN pdf.appendix = PlanIdx
  /\ pdf.appendix[3]
  /\ \A i \in PlanIdx \ {3} : ~pdf.appendix[i]

(* The four plan values of a document d are the fields of row i, or all    *)
(* four are the dash.                                                      *)
PlanFieldsOfRow(d, i) ==
  /\ d.plan_gap = PLAN_ROWS[i].Gap
  /\ d.plan_iface = PLAN_ROWS[i].Iface
  /\ d.plan_fix = PLAN_ROWS[i].Fix
  /\ d.plan_ref = PLAN_ROWS[i].Reference

PlanFieldsAllDash(d) ==
  /\ d.plan_gap = "--"
  /\ d.plan_iface = "--"
  /\ d.plan_fix = "--"
  /\ d.plan_ref = "--"

(* C22 -- Exported plan fields are consistent: after every pass that       *)
(* reached the export section, the four plan values build_pdf writes for   *)
(* the pass's selections (gap, interface type, fix, reference) are all the *)
(* fields of the one checked plan row, or all "--" when no plan row is     *)
(* checked; the document of a Generate PDF pass holds exactly these        *)
(* values.  Fields of two different rows are never mixed.                  *)
C22_PlanFieldsConsistent ==
  out.stage = "done" =>
    /\ \/ /\ CheckedIn(session_state, PlanKeys) = {}
          /\ PlanFieldsAllDash(build_pdf(out.selections))
       \/ \E i \in PlanIdx :
            /\ CheckedIn(session_state, PlanKeys) = {PlanKey(i)}
            /\ out.plan_selected = i
            /\ PlanFieldsOfRow(build_pdf(out.selections), i)
    /\ last_op.kind = "generate" =>
         /\ pdf.plan_gap = build_pdf(out.selections).plan_gap
         /\ pdf.plan_iface = build_pdf(out.selections).plan_iface
         /\ pdf.plan_fix = build_pdf(out.selections).plan_fix
         /\ pdf.plan_ref = build_pdf(out.selections).plan_ref

(* A document generated while the last gap is selected holds that row's    *)
(* four fields.                                                            *)
C22_Witness ==
  /\ last_op.kind = "generate"
  /\ CheckedIn(session_state, PlanKeys) = {PlanKey(5)}
  /\ PlanFieldsOfRow(pdf, 5)
  /\ pdf.plan_ref = "ONC S170.315(d)(9); CMS Criterion 5 - Identity & Trust"

====
